---- MODULE Spec2Model ----
(***************************************************************************)
(* The decision-logging dashboard of src/app.py: one script that, on every *)
(* user interaction, optionally appends the submitted form to data.csv     *)
(* (lines 24-56), then reads the whole file back (58-72), computes the     *)
(* summary (74-87), filters by the chosen decision labels (100-106) and    *)
(* draws the charts (108-146).                                             *)
(*                                                                         *)
(* A text is a sequence of symbols.  Digits and the minus sign are single  *)
(* characters, so that writing a number and reading it back are real       *)
(* conversions; a column name or a category name is one symbol, since no   *)
(* operation looks inside it.  A CSV line is the sequence of its cells     *)
(* (to_csv quotes and read_csv unquotes separators, which none of the      *)
(* texts used here contains).                                              *)
(***************************************************************************)
EXTENDS Integers, Sequences, FiniteSets, TLC

\* ------------------------------------------------------------- bounds
MaxRows == 2
MaxDay == 1

\* ------------------------------------------------------------ the form
categories == << <<"Work">>, <<"Personal">>, <<"Health goal">>, <<"Finance">>, <<"Other">> >>

\* What the sessions submit, as (decision, category, (Wealth, Health, Self)):
\* a decision that is the empty text, a word, or made of digits, with two of
\* the categories and slider triples of every number of negative sectors.
FormEntries ==
    { << <<"A">>, categories[4], <<20, 0, -10>> >>,
      << <<>>, categories[4], <<20, 0, -10>> >>,
      << <<"0", "7">>, categories[4], <<20, 0, -10>> >>,
      << <<"A">>, categories[1], <<100, 1, 5>> >>,
      << <<>>, categories[1], <<100, 1, 5>> >>,
      << <<"0", "7">>, categories[1], <<100, 1, 5>> >>,
      << <<"B">>, categories[1], <<-100, -1, -10>> >>,
      << <<"B">>, categories[4], <<0, 20, 0>> >> }

\* Slider positions of the classification check: both ends, both sides of 0.
SliderValues == {-100, -10, -1, 0, 1, 20, 100}

Sectors == <<"Wealth", "Health", "Self">>

\* ------------------------------------------------------- number <-> text
DigitChar == <<"0", "1", "2", "3", "4", "5", "6", "7", "8", "9">>

RECURSIVE Digits(_)
Digits(n) ==
    IF n < 10 THEN <<DigitChar[n + 1]>>
    ELSE Digits(n \div 10) \o <<DigitChar[(n % 10) + 1]>>

\* str(int), as to_csv writes an integer cell
FormatInt(i) == IF i < 0 THEN <<"-">> \o Digits(-i) ELSE Digits(i)

IsDigit(c) == \E d \in 1..10 : DigitChar[d] = c

DigitVal(c) == (CHOOSE d \in 1..10 : DigitChar[d] = c) - 1

AllDigits(t) == Len(t) > 0 /\ \A k \in 1..Len(t) : IsDigit(t[k])

\* the texts read_csv takes for an integer: an optional sign, then digits
IsIntText(t) ==
    /\ Len(t) > 0
    /\ IF t[1] \in {"-", "+"} THEN AllDigits(Tail(t)) ELSE AllDigits(t)

RECURSIVE DigitsVal(_)
DigitsVal(t) ==
    IF Len(t) = 0 THEN 0
    ELSE 10 * DigitsVal(SubSeq(t, 1, Len(t) - 1)) + DigitVal(t[Len(t)])

ParseInt(t) ==
    IF t[1] = "-" THEN 0 - DigitsVal(Tail(t))
    ELSE IF t[1] = "+" THEN DigitsVal(Tail(t))
    ELSE DigitsVal(t)

\* str(Timestamp) of a day, and the parse to_datetime makes of it.  Only the
\* calendar day is kept: the summary reads nothing else (normalize()).
FormatTime(day) == <<"d">> \o Digits(day)

IsTimeText(t) == Len(t) > 1 /\ t[1] = "d" /\ AllDigits(Tail(t))

\* ------------------------------------------------------- loaded values
NaN == [t |-> "nan", i |-> 0, s |-> <<>>]
NaT == [t |-> "nat", i |-> 0, s |-> <<>>]
IntVal(n) == [t |-> "int", i |-> n, s |-> <<>>]
StrVal(x) == [t |-> "str", i |-> 0, s |-> x]
TimeVal(d) == [t |-> "time", i |-> d, s |-> <<>>]

\* ------------------------------------------------------------ the store
Header == << <<"Decision">>, <<"Category">>, <<"Wealth">>, <<"Health">>, <<"Self">>, <<"Time">> >>

\* The header an earlier version of the program wrote, before it had categories.
LegacyHeader == << <<"Decision">>, <<"Wealth">>, <<"Health">>, <<"Self">>, <<"Time">> >>

\* One row of df_new as to_csv writes it: the columns in the dict's order.
FormatRow(r) ==
    << r.Decision, r.Category, FormatInt(r.Wealth), FormatInt(r.Health),
       FormatInt(r.Self), FormatTime(r.Time) >>

\* (mutant) header=True: every append writes the header again
WriteHeaderAlways(exists) == TRUE

\* header=not DATA_PATH.exists()
WriteHeader(exists) == ~exists

\* df_new.to_csv(DATA_PATH, mode="a", index=False, header=...): the lines of
\* the file afterwards.
ToCsv(exists, lines, frame) ==
    (IF exists THEN lines ELSE <<>>)
        \o (IF WriteHeader(exists) THEN <<Header>> ELSE <<>>)
        \o [k \in 1..Len(frame) |-> FormatRow(frame[k])]

\* The cell texts read_csv takes for a missing value (its default na_values).
NaValues ==
    { <<>>, <<"N", "A">>, <<"N", "/", "A">>, <<"n", "/", "a">>, <<"N", "a", "N">>,
      <<"n", "a", "n">>, <<"N", "U", "L", "L">>, <<"n", "u", "l", "l">>,
      <<"N", "o", "n", "e">>, <<"<", "N", "A", ">">>, <<"#", "N", "/", "A">>,
      <<"#", "N", "A">>, <<"-", "N", "a", "N">>, <<"-", "n", "a", "n">> }

\* The tokenizer's check at the end of a line: from the second data line on,
\* a line with more fields than the line before it is a ParserError
\* ("Expected 5 fields in line 3, saw 6"); the header line and the first data
\* line are not checked.
TooManyFields(lines) ==
    \E k \in 3..Len(lines) : Len(lines[k]) > Len(lines[k - 1])

\* Cell j of data row i; a row shorter than the header is padded with missing
\* values.
Cell(lines, i, j) ==
    IF j <= Len(lines[i + 1]) THEN lines[i + 1][j] ELSE <<>>

\* Type inference, per column: a column whose every present cell is an
\* integer text becomes a column of integers, any other column keeps the
\* cell texts.  (Floats and booleans are inferred the same way; none of the
\* texts used here is one.  Beside a missing value pandas holds the integers
\* as floats of the same value.)
ColumnIsInt(lines, j) ==
    \A i \in 1..(Len(lines) - 1) :
        Cell(lines, i, j) \in NaValues \/ IsIntText(Cell(lines, i, j))

CellValue(lines, i, j) ==
    IF Cell(lines, i, j) \in NaValues THEN NaN
    ELSE IF ColumnIsInt(lines, j) THEN IntVal(ParseInt(Cell(lines, i, j)))
    ELSE StrVal(Cell(lines, i, j))

\* The column names of a header line.  In every store the program writes the
\* first data line is as wide as the header, so no column becomes the index.
Columns(lines) == { lines[1][j][1] : j \in 1..Len(lines[1]) }

ColumnIndex(lines, c) == CHOOSE j \in 1..Len(lines[1]) : lines[1][j][1] = c

\* pd.read_csv(DATA_PATH) of an existing file: the outcome and the frame, one
\* record per data line, in file order.
ReadCsv(lines) ==
    IF Len(lines) = 0 \/ TooManyFields(lines)
    THEN [ok |-> FALSE, rows |-> <<>>]
    ELSE [ok |-> TRUE,
          rows |-> [i \in 1..(Len(lines) - 1) |->
                      [c \in Columns(lines) |-> CellValue(lines, i, ColumnIndex(lines, c))]]]

\* (mutant) no except clause: a missing file fails the run
LoadFrameNoFallback(exists, lines) == ReadCsv(lines)

\* try: read_csv / except FileNotFoundError: the empty frame with the six
\* columns.
LoadFrame(exists, lines) ==
    IF exists THEN ReadCsv(lines) ELSE [ok |-> TRUE, rows |-> <<>>]

\* if "Category" not in df.columns: df["Category"] = "Uncategorized"
\* (a frame without rows has no row to give the column to).
EnsureCategory(rows) ==
    [i \in 1..Len(rows) |->
        IF "Category" \in DOMAIN rows[i] THEN rows[i]
        ELSE [c \in DOMAIN rows[i] \cup {"Category"} |->
                IF c = "Category" THEN StrVal(<<"Uncategorized">>) ELSE rows[i][c]]]

\* pd.to_datetime(..., errors="coerce") of one value of the Time column
ToDatetime(v) ==
    IF v.t = "str" /\ IsTimeText(v.s) THEN TimeVal(DigitsVal(Tail(v.s))) ELSE NaT

\* (mutant) the rows whose Time does not parse are dropped
ParseTimesDropInvalid(rows) ==
    LET valid(r) == ToDatetime(r.Time) # NaT
        kept == SelectSeq(rows, valid)
    IN  [i \in 1..Len(kept) |-> [kept[i] EXCEPT !["Time"] = ToDatetime(@)]]

\* if not df.empty: df["Time"] = pd.to_datetime(df["Time"], errors="coerce")
ParseTimes(rows) ==
    [i \in 1..Len(rows) |-> [rows[i] EXCEPT !["Time"] = ToDatetime(@)]]

\* lines 58-72: the frame the rest of the script works on
LoadAll(exists, lines) ==
    LET got == LoadFrame(exists, lines)
    IN  [ok |-> got.ok, rows |-> ParseTimes(EnsureCategory(got.rows))]

\* ------------------------------------------------- the submit block's warning
\* (mutant) val <= 0
NegativeOrZero(scores) ==
    LET pick(k) == IF scores[k] <= 0 THEN <<Sectors[k]>> ELSE <<>>
    IN  pick(1) \o pick(2) \o pick(3)

\* [name for name, val in [("Wealth", w), ("Health", h), ("Self", s)] if val < 0]
Negative(scores) ==
    LET pick(k) == IF scores[k] < 0 THEN <<Sectors[k]>> ELSE <<>>
    IN  pick(1) \o pick(2) \o pick(3)

\* [name for name, val in [...] if val == 0]
Zero(scores) ==
    LET pick(k) == IF scores[k] = 0 THEN <<Sectors[k]>> ELSE <<>>
    IN  pick(1) \o pick(2) \o pick(3)

\* if negative: st.error(...) / elif zero: st.warning(...)
Message(neg, zer) ==
    IF neg # <<>> THEN "error" ELSE IF zer # <<>> THEN "warning" ELSE "none"

\* ------------------------------------------------------------ the summary
RECURSIVE SumOf(_, _)
SumOf(rows, col) ==
    IF Len(rows) = 0 THEN 0
    ELSE SumOf(SubSeq(rows, 1, Len(rows) - 1), col) + rows[Len(rows)][col].i

\* (mutant) every record with a valid time counts, whatever its day
DecisionsOfAnyDay(rows, today) ==
    Cardinality({ i \in 1..Len(rows) : rows[i].Time.t = "time" })

\* len(df[df["Time"].dt.normalize() == today]): NaT equals no day
DecisionsToday(rows, today) ==
    Cardinality({ i \in 1..Len(rows) : rows[i].Time = TimeVal(today) })

\* (mutant) val <= 0
NonPositiveFlags(r) ==
    LET flag(v) == IF v.i <= 0 THEN 1 ELSE 0
    IN  flag(r.Wealth) + flag(r.Health) + flag(r.Self)

\* sum(val < 0 for val in [r.Wealth, r.Health, r.Self])
NegFlags(r) ==
    LET flag(v) == IF v.i < 0 THEN 1 ELSE 0
    IN  flag(r.Wealth) + flag(r.Health) + flag(r.Self)

RECURSIVE SumNegFlags(_)
SumNegFlags(rows) ==
    IF Len(rows) = 0 THEN 0
    ELSE SumNegFlags(SubSeq(rows, 1, Len(rows) - 1)) + NegFlags(rows[Len(rows)])

\* A mean is kept as the fraction num/den; the literal 0 of the else branch
\* is 0/1.
Mean(total, n) == [num |-> total, den |-> n]

NoMean == [num |-> 0, den |-> 1]

\* The value of today in a run that has not assigned it.
Unset == -1

\* lines 75-87; now is the day pd.Timestamp.now() falls on
Summary(rows, now) ==
    LET today == now IN
    IF Len(rows) > 0
    THEN [today |-> today,
          decisions_today |-> DecisionsToday(rows, today),
          avg_wealth |-> Mean(SumOf(rows, "Wealth"), Len(rows)),
          avg_neg_flags |-> Mean(SumNegFlags(rows), Len(rows))]
    ELSE [today |-> Unset, decisions_today |-> 0,
          avg_wealth |-> NoMean, avg_neg_flags |-> NoMean]

\* ------------------------------------------------------ filter and charts
\* df["Decision"].unique(): the options of the multiselect
UniqueDecisions(rows) == { rows[i].Decision : i \in 1..Len(rows) }

\* (mutant) the chosen labels are left out instead of kept
FilterRowsInverted(rows, chosen) ==
    LET keep(r) == r.Decision \notin chosen IN SelectSeq(rows, keep)

\* df[df["Decision"].isin(sel)]
FilterRows(rows, chosen) ==
    LET keep(r) == r.Decision \in chosen IN SelectSeq(rows, keep)

NoChart == [kind |-> "none", last |-> <<>>, totals |-> <<>>]

\* lines 109-146: the bars of the last filtered row and the totals, or the
\* "No decisions to show." note
Plots(rows) ==
    IF Len(rows) > 0
    THEN [kind |-> "plots",
          last |-> [k \in 1..3 |-> rows[Len(rows)][Sectors[k]].i],
          totals |-> [k \in 1..3 |-> SumOf(rows, Sectors[k])]]
    ELSE [kind |-> "info", last |-> <<>>, totals |-> <<>>]

\* ------------------------------------------------------------------ state
VARIABLES
    exists,           \* DATA_PATH.exists()
    lines,            \* the lines of data.csv, each the sequence of its cells
    clock,            \* the day pd.Timestamp.now() falls on
    pc,               \* "start", "appended" (line 56 passed), "shown" (script
                      \* ran to its end), "failed" (read_csv raised)
    submit,           \* the form's button in the current run
    df_new,           \* the one-row frame of the submit block, <<>> outside it
    negative, zero,   \* the two lists of the submit block
    message,          \* "error", "warning" or "none"
    logged,           \* how often "Decision logged!" was reached
    df,               \* the frame of the current run
    today,            \* pd.Timestamp.now().normalize() of line 76
    decisions_today, avg_wealth, avg_neg_flags,
    sel,              \* the multiselect's choice
    df2,              \* the filtered frame
    chart             \* what the chart stage drew

vars ==
    << exists, lines, clock, pc, submit, df_new, negative, zero, message, logged,
       df, today, decisions_today, avg_wealth, avg_neg_flags, sel, df2, chart >>

DataRows == IF exists THEN Len(lines) - 1 ELSE 0

\* ---------------------------------------------------------- initial stores
LegacyRow == << <<"A">>, FormatInt(20), FormatInt(0), FormatInt(-10), FormatTime(0) >>

\* A row of the current layout whose Time cell is no timestamp.
BadTimeRow ==
    << <<"A">>, categories[1], FormatInt(-100), FormatInt(1), FormatInt(5), <<"?">> >>

Absent == [exists |-> FALSE, lines |-> <<>>]

PriorStores ==
    { Absent,
      [exists |-> TRUE, lines |-> <<LegacyHeader, LegacyRow>>],
      [exists |-> TRUE, lines |-> <<Header, BadTimeRow>>] }

InitWith(store) ==
    /\ exists = store.exists
    /\ lines = store.lines
    /\ clock = 0
    /\ pc = "start"
    /\ submit = FALSE
    /\ df_new = <<>>
    /\ negative = <<>>
    /\ zero = <<>>
    /\ message = "none"
    /\ logged = 0
    /\ df = <<>>
    /\ today = Unset
    /\ decisions_today = 0
    /\ avg_wealth = NoMean
    /\ avg_neg_flags = NoMean
    /\ sel = {}
    /\ df2 = <<>>
    /\ chart = NoChart

Init == \E store \in PriorStores : InitWith(store)

InitFresh == InitWith(Absent)

\* ---------------------------------------------------------------- actions
\* Lines 24-56 of a run whose form was submitted.  The run starts with
\* nothing of the run before it: the frame, the summary and the charts are
\* those of this run once it reaches them.
Submit ==
    /\ pc # "appended"
    /\ DataRows < MaxRows
    /\ \E entry \in FormEntries :
         LET decision == entry[1]
             category == entry[2]
             scores == entry[3]
         IN  /\ submit' = TRUE
             /\ negative' = Negative(scores)
             /\ zero' = Zero(scores)
             /\ message' = Message(Negative(scores), Zero(scores))
             /\ df_new' = << [Decision |-> decision, Category |-> category,
                              Wealth |-> scores[1], Health |-> scores[2],
                              Self |-> scores[3], Time |-> clock] >>
             /\ lines' = ToCsv(exists, lines, df_new')
    /\ exists' = TRUE
    /\ logged' = logged + 1
    /\ pc' = "appended"
    /\ df' = <<>>
    /\ today' = Unset
    /\ decisions_today' = 0
    /\ avg_wealth' = NoMean
    /\ avg_neg_flags' = NoMean
    /\ sel' = {}
    /\ df2' = <<>>
    /\ chart' = NoChart
    /\ UNCHANGED clock

\* Lines 58-146, the frame and the summary computed once.  An exception of read_csv other than FileNotFoundError ends
\* the run: nothing below line 60 is computed or shown.
Show ==
    \E got \in {LoadAll(exists, lines)} : \E sum \in {Summary(got.rows, clock)} :
        IF got.ok
        THEN /\ pc' = "shown"
             /\ df' = got.rows
             /\ today' = sum.today
             /\ decisions_today' = sum.decisions_today
             /\ avg_wealth' = sum.avg_wealth
             /\ avg_neg_flags' = sum.avg_neg_flags
             /\ \E chosen \in SUBSET UniqueDecisions(got.rows) :
                  \E kept \in {FilterRows(got.rows, chosen)} :
                      /\ sel' = chosen
                      /\ df2' = kept
                      /\ chart' = Plots(kept)
        ELSE /\ pc' = "failed"
             /\ df' = <<>>
             /\ today' = Unset
             /\ decisions_today' = 0
             /\ avg_wealth' = NoMean
             /\ avg_neg_flags' = NoMean
             /\ sel' = {}
             /\ df2' = <<>>
             /\ chart' = NoChart

\* The rest of the run that appended.
Render ==
    /\ pc = "appended"
    /\ Show
    /\ UNCHANGED << exists, lines, clock, submit, df_new, negative, zero, message, logged >>

\* A run without a submission (the page is opened, the multiselect changed).
Rerun ==
    /\ pc # "appended"
    /\ submit' = FALSE
    /\ df_new' = <<>>
    /\ negative' = <<>>
    /\ zero' = <<>>
    /\ message' = "none"
    /\ Show
    /\ UNCHANGED << exists, lines, clock, logged >>

\* Midnight passes.
Tick ==
    /\ clock < MaxDay
    /\ clock' = clock + 1
    /\ UNCHANGED << exists, lines, pc, submit, df_new, negative, zero, message, logged,
                    df, today, decisions_today, avg_wealth, avg_neg_flags, sel, df2, chart >>

Next == Submit \/ Render \/ Rerun \/ Tick

\* Lines 26-39 alone, on a form already filled in: the two lists and the
\* message of every slider triple.
InitClassify ==
    \E scores \in SliderValues \X SliderValues \X SliderValues :
        /\ exists = FALSE
        /\ lines = <<>>
        /\ clock = 0
        /\ pc = "start"
        /\ submit = TRUE
        /\ df_new = << [Decision |-> <<"A">>, Category |-> categories[4],
                        Wealth |-> scores[1], Health |-> scores[2],
                        Self |-> scores[3], Time |-> 0] >>
        /\ negative = <<>>
        /\ zero = <<>>
        /\ message = "none"
        /\ logged = 0
        /\ df = <<>>
        /\ today = Unset
        /\ decisions_today = 0
        /\ avg_wealth = NoMean
        /\ avg_neg_flags = NoMean
        /\ sel = {}
        /\ df2 = <<>>
        /\ chart = NoChart

Classify ==
    /\ pc = "start"
    /\ \E scores \in {<<df_new[1].Wealth, df_new[1].Health, df_new[1].Self>>} :
         /\ negative' = Negative(scores)
         /\ zero' = Zero(scores)
         /\ message' = Message(Negative(scores), Zero(scores))
    /\ pc' = "warned"
    /\ UNCHANGED << exists, lines, clock, submit, df_new, logged, df, today, decisions_today,
                    avg_wealth, avg_neg_flags, sel, df2, chart >>

NextClassify == Classify

Spec == Init /\ [][Next]_vars

SpecFresh == InitFresh /\ [][Next]_vars

SpecClassify == InitClassify /\ [][NextClassify]_vars

\* ================================================================ claims
IsPrefix(a, b) == Len(a) <= Len(b) /\ \A i \in 1..Len(a) : a[i] = b[i]

\* The run that appended has ended, by reaching the charts or by an exception.
SubmittedRunEnded == submit /\ pc \in {"shown", "failed"}

\* C1 (as claimed): after append(r) the load succeeds and the last loaded
\* record has the decision, category, wealth, health and self of r, whatever
\* the text of the decision and whatever store the append found.
RoundTrip ==
    SubmittedRunEnded =>
        /\ pc = "shown"
        /\ Len(df) > 0
        /\ df[Len(df)].Decision = StrVal(df_new[1].Decision)
        /\ df[Len(df)].Category = StrVal(df_new[1].Category)
        /\ df[Len(df)].Wealth = IntVal(df_new[1].Wealth)
        /\ df[Len(df)].Health = IntVal(df_new[1].Health)
        /\ df[Len(df)].Self = IntVal(df_new[1].Self)

\* C2 (as claimed): every append adds exactly one record at the end of what
\* loadAll returns and leaves the records loaded before it as they were, and
\* a session that began without a store loads as many records as it logged.
AppendOnlyOrdered ==
    [][ Submit =>
          \A before \in {LoadAll(exists, lines)}, after \in {LoadAll(exists', lines')} :
              /\ after.ok
              /\ Len(after.rows) = logged'
              /\ Len(after.rows) = Len(before.rows) + 1
              /\ IsPrefix(before.rows, after.rows) ]_vars

\* C3: a store the session created has the six-column header as its first
\* line and nowhere else; an append writes the header exactly when the file
\* does not exist, and otherwise adds one line after the lines already there.
HeaderFirstOnly ==
    /\ ~exists => lines = <<>>
    /\ exists => /\ Len(lines) >= 2
                 /\ lines[1] = Header
                 /\ \A k \in 2..Len(lines) : lines[k] # Header

HeaderWrittenOnce ==
    /\ []HeaderFirstOnly
    /\ [][ Submit =>
             /\ exists => (Len(lines') = Len(lines) + 1 /\ IsPrefix(lines, lines'))
             /\ ~exists => (Len(lines') = 2 /\ lines'[1] = Header)
             /\ lines'[Len(lines')] = FormatRow(df_new'[1]) ]_vars

TwoAppendsOneHeader ==
    exists /\ logged = 2 /\ Len(lines) = 3 /\ lines[1] = Header
\* C4: without a store the run does not fail and loads the empty sequence,
\* and the summary of an empty sequence is 0 decisions today, average wealth
\* 0 and average negative flags 0.
EmptyHistory ==
    /\ ~exists => pc # "failed"
    /\ (pc = "shown" /\ ~exists) => df = <<>>
    /\ (pc = "shown" /\ df = <<>>) =>
          /\ decisions_today = 0
          /\ avg_wealth.num = 0
          /\ avg_neg_flags.num = 0

ShownWithoutStore == pc = "shown" /\ ~exists /\ df = <<>> /\ chart.kind = "info"

\* Which data lines of the file carry a category cell: those written under
\* the six-column layout.
HasCategoryCell(k) == Len(lines[k]) = Len(Header)

\* C5 (as claimed): a run over an existing store loads every stored row with a
\* category: "Uncategorized" for a row stored without one, the stored
\* category for a row stored with one.
CategoryBackfill ==
    (exists /\ pc \in {"shown", "failed"}) =>
        /\ pc = "shown"
        /\ Len(df) = Len(lines) - 1
        /\ \A i \in 1..Len(df) :
              IF HasCategoryCell(i + 1)
              THEN df[i].Category = StrVal(lines[i + 1][2])
              ELSE df[i].Category = StrVal(<<"Uncategorized">>)

\* The records loaded before the one this run appended that are dated d.
EarlierDated(d) ==
    Cardinality({ i \in 1..(Len(df) - 1) : df[i].Time = TimeVal(d) })

\* C6 (as claimed): the summary of the run that appended counts the new
\* record: decisions today is the number of earlier records dated today plus
\* one.
CountsOwnSubmission ==
    (submit /\ pc = "shown") => decisions_today = EarlierDated(today) + 1

\* C6 (amended): the new record is stamped with the day read at the append
\* and is counted exactly when the day read for the summary is the same day;
\* from an empty store on one day, one submission shows one decision today
\* and its wealth as the average.
CountsOwnSubmissionSameDay ==
    (submit /\ pc = "shown") =>
        /\ Len(df) > 0
        /\ df[Len(df)].Time = TimeVal(df_new[1].Time)
        /\ decisions_today =
              EarlierDated(today) + (IF df_new[1].Time = today THEN 1 ELSE 0)
        /\ (Len(df) = 1 /\ df_new[1].Time = today) =>
              /\ decisions_today = 1
              /\ avg_wealth.num = df_new[1].Wealth * avg_wealth.den

SubmissionCountedWithEarlier ==
    /\ submit /\ pc = "shown" /\ Len(df) = 2
    /\ df_new[1].Time = today
    /\ EarlierDated(today) = 1
    /\ decisions_today = 2

\* The slider triple of the submit block.
Submitted == <<df_new[1].Wealth, df_new[1].Health, df_new[1].Self>>

InSeq(x, q) == \E k \in 1..Len(q) : q[k] = x

\* C7: negative holds exactly the sectors below 0 and zero exactly the
\* sectors at 0; the error is shown iff some sector is below 0, the warning
\* iff none is below 0 and some is at 0, and nothing when all are above 0.
ImpactClassification ==
    pc = "warned" =>
        /\ \A k \in 1..3 :
              /\ InSeq(Sectors[k], negative) <=> Submitted[k] < 0
              /\ InSeq(Sectors[k], zero) <=> Submitted[k] = 0
        /\ Len(negative) + Len(zero) <= 3
        /\ message = "error" <=> \E k \in 1..3 : Submitted[k] < 0
        /\ message = "warning" <=>
              ((\A k \in 1..3 : Submitted[k] >= 0) /\ \E k \in 1..3 : Submitted[k] = 0)
        /\ (\A k \in 1..3 : Submitted[k] > 0) => message = "none"
        /\ Submitted = <<20, 0, -10>> =>
              (negative = <<"Self">> /\ zero = <<"Health">> /\ message = "error")

IndexFundClassified ==
    /\ pc = "warned" /\ Submitted = <<20, 0, -10>>
    /\ negative = <<"Self">> /\ zero = <<"Health">> /\ message = "error"

\* The sectors of all loaded records that are strictly negative.
NegativeSectors ==
    { ik \in (1..Len(df)) \X (1..3) : df[ik[1]][Sectors[ik[2]]].i < 0 }

\* C8: the average negative flag count is the number of strictly negative
\* sectors over the number of records, hence between 0 and 3.
NegativeFlagRange ==
    pc = "shown" =>
        /\ avg_neg_flags.den >= 1
        /\ 0 <= avg_neg_flags.num
        /\ avg_neg_flags.num <= 3 * avg_neg_flags.den
        /\ Len(df) > 0 =>
              /\ avg_neg_flags.den = Len(df)
              /\ avg_neg_flags.num = Cardinality(NegativeSectors)

ZeroSectorNotFlagged ==
    /\ pc = "shown" /\ Len(df) = 2
    /\ \E i \in 1..2 : df[i].Health.i = 0
    /\ avg_neg_flags = [num |-> 4, den |-> 2]

\* The data lines of a six-column store whose Time cell is no timestamp.
BadTimeLines ==
    IF exists /\ lines[1] = Header
    THEN { k \in 2..Len(lines) : ~IsTimeText(lines[k][6]) }
    ELSE {}

\* C9: a stored row with an unparsable Time does not fail the load and is
\* not dropped: it is loaded at its position with the invalid-time marker, is
\* not among the decisions of today, and its wealth and negative flags are in
\* the averages.
UnparsableTimeKept ==
    (BadTimeLines # {} /\ pc \in {"shown", "failed"}) =>
        /\ pc = "shown"
        /\ Len(df) = Len(lines) - 1
        /\ \A k \in BadTimeLines :
              /\ df[k - 1].Time = NaT
              /\ df[k - 1].Wealth = IntVal(ParseInt(lines[k][3]))
        /\ decisions_today =
              Cardinality({ k \in (2..Len(lines)) \ BadTimeLines :
                              DigitsVal(Tail(lines[k][6])) = today })
        /\ avg_wealth.den = Len(lines) - 1
        /\ avg_wealth.num = SumOf(df, "Wealth")
        /\ avg_neg_flags.den = Len(lines) - 1
        /\ avg_neg_flags.num = Cardinality(NegativeSectors)

BadTimeRowBesideToday ==
    /\ pc = "shown" /\ BadTimeLines = {2} /\ Len(df) = 2
    /\ df[1].Time = NaT /\ df[2].Time = TimeVal(today)
    /\ decisions_today = 1
    /\ avg_wealth.den = 2

\* The positions of df whose decision is among the chosen labels.
ChosenPositions == { i \in 1..Len(df) : df[i].Decision \in sel }

\* C10: the filtered frame is the records whose decision is chosen, in their
\* order; the bars of the last record and the totals are drawn exactly when
\* it is not empty, and the note is shown instead when it is.
FilterAndChartGuard ==
    pc = "shown" =>
        /\ Len(df2) = Cardinality(ChosenPositions)
        /\ \A k \in 1..Len(df2) :
              \E i \in ChosenPositions :
                  /\ Cardinality({ j \in ChosenPositions : j < i }) = k - 1
                  /\ df2[k] = df[i]
        /\ chart.kind = (IF Len(df2) > 0 THEN "plots" ELSE "info")
        /\ Len(df2) > 0 =>
              /\ chart.last = [k \in 1..3 |-> df2[Len(df2)][Sectors[k]].i]
              /\ \A k \in 1..3 : chart.totals[k] = SumOf(df2, Sectors[k])
        /\ Len(df2) = 0 => (chart.last = <<>> /\ chart.totals = <<>>)

NothingChosenNoteShown ==
    /\ pc = "shown" /\ Len(df) = 2 /\ sel = {}
    /\ df2 = <<>> /\ chart.kind = "info"

====
